---- MODULE Spec2Model ----
(***************************************************************************)
(* Position lifecycle of the volume-profile trading system.                *)
(*                                                                         *)
(* The trade store (src/src/database.py) is shared by                      *)
(*   - the main loop (src/src/main_v1.py): StrategyAgent.run followed by    *)
(*     TradingAgent.run on the returned signal list;                       *)
(*   - the monitoring cycle: PositionManager.run.                          *)
(* Cycles run one after the other, in any order.                           *)
(* Prices are integers, time is counted in seconds.  The rows appended to  *)
(* the ai_decisions and position_updates tables are never read back by the *)
(* program; lastEntry and lastMonitor record whether the last step wrote   *)
(* one.                                                                    *)
(***************************************************************************)
EXTENDS Integers, Sequences, FiniteSets, TLC

(***************************************************************************)
(* Bounds of the model.                                                    *)
(***************************************************************************)
MaxTrades == 2
MaxTime == 900

(***************************************************************************)
(* Program constants (src/src/config.py); two of the configured symbols.   *)
(***************************************************************************)
HYPERLIQUID_SYMBOLS == <<"BTC", "ETH">>
STRATEGY_TIMEFRAMES == <<"1m", "5m">>
HYPERLIQUID_TESTNET == TRUE
AI_CONFIRMATION_REQUIRED == TRUE
VP_TIMEOUT_CANDLES == 15
usd_size == 50

Symbols == {HYPERLIQUID_SYMBOLS[i] : i \in 1..Len(HYPERLIQUID_SYMBOLS)}
Timeframes == {STRATEGY_TIMEFRAMES[i] : i \in 1..Len(STRATEGY_TIMEFRAMES)}

\* SQL NULL / Python None for a numeric column.
Null == -1

\* Live prices the exchange can report; 0 stands for "no price"
\* (get_current_price returns None, tested with `not current_price`).
Prices == {96, 100, 104}
NoPrice == 0

\* Clock advances (seconds) between two observations of datetime.now().
TickSteps == {900}

VARIABLES
    trades,            \* trades table: sequence of rows, id = index
    now,               \* wall clock, seconds
    pc,                \* what is running: "idle", "scan", "trade", "monitor"
    scanIdx,           \* StrategyAgent.run: index of the symbol to scan, or 0
    signals,           \* all_signals of the scan, then the signals still to
                       \* be processed by TradingAgent.run
    open_positions,    \* PositionManager.run: rows still to be monitored
    model,             \* PositionManager.model is loaded (not None); see
                       \* InitStore
    lastEntry,         \* what the last TradingAgent.run iteration did
    lastMonitor,       \* what the last PositionManager.run iteration did
    lastScan,          \* what the last StrategyAgent.run iteration did
    exitIn,            \* check_exit_conditions evaluated alone: its arguments
    exitOut,           \* ... and its result
    stratIn,           \* a VolumeProfileStrategy function evaluated alone:
                       \* its arguments
    stratOut           \* ... and what it returned

vars == <<trades, now, pc, scanIdx, signals, open_positions, model, lastEntry,
          lastMonitor, exitIn, exitOut, stratIn, stratOut,
          lastScan>>

(***************************************************************************)
(* Signals (VolumeProfileStrategy).                                        *)
(***************************************************************************)

\* _neutral_signal: zeroed prices, leverage 1, no profile, empty metadata,
\* and no atr_percent / risk_reward keys.
NeutralSignal(symbol, timeframe) ==
    [symbol |-> symbol, direction |-> "NEUTRAL", confidence |-> 0,
     entry_price |-> 0, target_price |-> 0, stop_loss |-> 0, leverage |-> 1,
     timeframe |-> timeframe, volume_profile |-> "None",
     has_atr_percent |-> FALSE,
     metadata |-> [has_keys |-> FALSE, timeout_candles |-> 0]]

\* A LONG / SHORT signal as returned by _check_entry_conditions.
EntrySignal(symbol, timeframe, direction, confidence, leverage) ==
    [symbol |-> symbol, direction |-> direction, confidence |-> confidence,
     entry_price |-> 100,
     target_price |-> IF direction = "LONG" THEN 104 ELSE 96,
     stop_loss |-> IF direction = "LONG" THEN 97 ELSE 103,
     leverage |-> leverage,
     timeframe |-> timeframe, volume_profile |-> "profile",
     has_atr_percent |-> TRUE,
     metadata |-> [has_keys |-> TRUE, timeout_candles |-> VP_TIMEOUT_CANDLES]]

\* Outcomes of one generate_signals call: None (insufficient data or an
\* exception), a NEUTRAL signal, or a LONG/SHORT signal.
GenOutcomes ==
    { [direction |-> "None", confidence |-> 0, leverage |-> 0],
      [direction |-> "NEUTRAL", confidence |-> 0, leverage |-> 1],
      [direction |-> "LONG", confidence |-> 70, leverage |-> 2],
      [direction |-> "SHORT", confidence |-> 85, leverage |-> 4] }

generate_signals(symbol, timeframe, g) ==
    IF g.direction = "NEUTRAL" THEN NeutralSignal(symbol, timeframe)
    ELSE EntrySignal(symbol, timeframe, g.direction, g.confidence, g.leverage)

(***************************************************************************)
(* Trade store (TradingDatabase).                                          *)
(***************************************************************************)

OpenIds == {i \in 1..Len(trades) : trades[i].status = "open"}

\* get_position_by_symbol: some open row of the symbol, or none.
HasOpenPosition(symbol) == \E i \in OpenIds : trades[i].symbol = symbol

\* get_open_positions without its WHERE status = 'open'.
get_open_positions_AnyStatus ==
    LET n == Len(trades)
        ord == CHOOSE f \in [1..n -> 1..n] :
                 \A a, b \in 1..n :
                    a < b =>
                      \/ trades[f[a]].timestamp > trades[f[b]].timestamp
                      \/ /\ trades[f[a]].timestamp = trades[f[b]].timestamp
                         /\ f[a] < f[b]
    IN [k \in 1..n |-> trades[ord[k]]]

\* get_open_positions: open rows ORDER BY timestamp DESC (ties by rowid).
Before(i, j) ==
    \/ trades[i].timestamp > trades[j].timestamp
    \/ trades[i].timestamp = trades[j].timestamp /\ i < j

get_open_positions ==
    LET n == Cardinality(OpenIds)
        ord == CHOOSE f \in [1..n -> OpenIds] :
                 \A a, b \in 1..n : a < b => Before(f[a], f[b])
    IN [k \in 1..n |-> trades[ord[k]]]

\* log_trade: INSERT a row with status 'open'.
log_trade(decision_id, symbol, action, size, leverage, entry_price, stop_loss, take_profit, confidence, timeframe, timeout_candles) ==
    Append(trades,
        [id |-> Len(trades) + 1, decision_id |-> decision_id,
         symbol |-> symbol, action |-> action, size |-> size,
         leverage |-> leverage, entry_price |-> entry_price,
         stop_loss |-> stop_loss, take_profit |-> take_profit,
         confidence |-> confidence, status |-> "open", exit_price |-> Null,
         pnl |-> [num |-> 0, den |-> 1], timestamp |-> now,
         exit_strategy |-> "NULL",
         exit_conditions |-> [take_profit |-> take_profit,
                              stop_loss |-> stop_loss,
                              timeout_candles |-> timeout_candles],
         timeout_candles |-> timeout_candles, candles_held |-> 0,
         timeframe |-> timeframe])

\* update_trade: UPDATE ... SET exit_price, pnl, exit_strategy, status.
update_trade(tbl, trade_id, exit_price, pnl, exit_strategy, status) ==
    [tbl EXCEPT ![trade_id].exit_price = exit_price,
                ![trade_id].pnl = pnl,
                ![trade_id].exit_strategy = exit_strategy,
                ![trade_id].status = status]

\* log_position_update writing the count into the timeout_candles column.
log_position_update_TimeoutColumn(tbl, trade_id, candles_held) ==
    [tbl EXCEPT ![trade_id].timeout_candles = candles_held]

\* log_position_update: the UPDATE of candles_held in the trades table.
log_position_update(tbl, trade_id, candles_held) ==
    [tbl EXCEPT ![trade_id].candles_held = candles_held]

(***************************************************************************)
(* StrategyAgent.run: one scan over all symbols and timeframes.            *)
(***************************************************************************)

\* Signals of one symbol that are kept: not None and not NEUTRAL.
RECURSIVE SymbolSignals(_, _, _)
SymbolSignals(symbol, gen, t) ==
    IF t > Len(STRATEGY_TIMEFRAMES) THEN << >>
    ELSE LET tf == STRATEGY_TIMEFRAMES[t]
             g == gen[tf]
             rest == SymbolSignals(symbol, gen, t + 1)
         IN IF g.direction # "None" /\ g.direction # "NEUTRAL"
            THEN <<generate_signals(symbol, tf, g)>> \o rest
            ELSE rest

\* max(symbol_signals, key=confidence): the first signal of maximal confidence.
BestSignal(ss) ==
    LET k == CHOOSE a \in 1..Len(ss) :
               /\ \A b \in 1..Len(ss) : ss[b].confidence <= ss[a].confidence
               /\ \A b \in 1..(a - 1) : ss[b].confidence < ss[a].confidence
    IN ss[k]

\* The scan of one symbol without the look at the trade store.
ScanSymbol_NoSkip(symbol, gen) ==
    LET ss == SymbolSignals(symbol, gen, 1)
    IN [skipped |-> FALSE, evaluated |-> STRATEGY_TIMEFRAMES,
        added |-> IF ss = << >> THEN << >>
                  ELSE <<BestSignal(ss), BestSignal(ss)>>]

\* The scan of one symbol: whether it is skipped for its open position,
\* the timeframes generate_signals is called on, and what is appended to
\* all_signals.
ScanSymbol(symbol, gen) ==
    IF HasOpenPosition(symbol)
    THEN [skipped |-> TRUE, evaluated |-> << >>, added |-> << >>]
    ELSE LET ss == SymbolSignals(symbol, gen, 1)
         IN [skipped |-> FALSE, evaluated |-> STRATEGY_TIMEFRAMES,
             added |-> IF ss = << >> THEN << >>
                       ELSE <<BestSignal(ss), BestSignal(ss)>>]

NoScan == [kind |-> "none", symbol |-> "", skipped |-> FALSE,
           evaluated |-> << >>, added |-> << >>]

NoLookup == [raises |-> FALSE, live |-> NoPrice, candle |-> NoPrice]

NoEntry == [kind |-> "none", symbol |-> "", direction |-> "",
            raised |-> FALSE, decided |-> FALSE, approved |-> FALSE,
            order |-> FALSE, result |-> "not called", logged |-> FALSE]

NoMonitor == [kind |-> "none", trade_id |-> 0, lookup |-> NoLookup,
              price |-> NoPrice, candles_held |-> 0, updated |-> FALSE,
              checked |-> FALSE, reason |-> "None", asked |-> FALSE,
              resp |-> "None", should_exit |-> FALSE, exit_reason |-> "None",
              close |-> FALSE, success |-> FALSE]

\* StrategyAgent.run up to the loop: all_signals = [] (no further scan once
\* the table holds MaxTrades rows).
StrategyStart ==
    /\ pc = "idle"
    /\ Len(trades) < MaxTrades
    /\ pc' = "scan"
    /\ scanIdx' = 1
    /\ signals' = << >>
    /\ lastEntry' = NoEntry
    /\ lastMonitor' = NoMonitor
    /\ lastScan' = NoScan
    /\ UNCHANGED <<trades, now, open_positions, model, exitIn, exitOut, stratIn, stratOut>>

\* One iteration of the symbol loop of StrategyAgent.run; after the last
\* symbol the list is returned and handed to TradingAgent.run.
StrategyStep ==
    /\ pc = "scan"
    /\ \E gen \in [Timeframes -> GenOutcomes] :
         LET symbol == HYPERLIQUID_SYMBOLS[scanIdx]
             scan == ScanSymbol(symbol, gen)
             all_signals == signals \o scan.added
             done == scanIdx = Len(HYPERLIQUID_SYMBOLS)
         IN /\ signals' = all_signals
            /\ lastScan' = [kind |-> "step", symbol |-> symbol,
                            skipped |-> scan.skipped,
                            evaluated |-> scan.evaluated,
                            added |-> scan.added]
            /\ scanIdx' = IF done THEN 0 ELSE scanIdx + 1
            /\ pc' = IF done THEN "trade" ELSE "scan"
    /\ UNCHANGED <<trades, now, open_positions, model, lastEntry,
                   lastMonitor, exitIn, exitOut, stratIn, stratOut>>

(***************************************************************************)
(* TradingAgent: entry confirmation and execution.                         *)
(***************************************************************************)

\* Answers of the entry advisory (model.generate_response): the call raises,
\* or the first line says REJECT / APPROVE, optionally with an
\* ADJUST_LEVERAGE: n and an ADJUST_SIZE: p line (0 = no such line).
EntryResponses ==
    { [raises |-> TRUE, approve |-> FALSE, lev |-> 0, size |-> 0],
      [raises |-> FALSE, approve |-> FALSE, lev |-> 0, size |-> 0],
      [raises |-> FALSE, approve |-> TRUE, lev |-> 0, size |-> 0] }

\* Answers with adjustment lines: int() of whatever follows the colon, with
\* no limit applied.
AdjustingResponses ==
    { [raises |-> FALSE, approve |-> TRUE, lev |-> l, size |-> z] :
        l \in {0, 1, 10, 25}, z \in {0, 50} }

\* A prompt built with .get() defaults: nothing raises.
PromptRaises_Never(signal) == FALSE

\* Building the prompt subscripts signal['volume_profile'] and reads
\* signal['metadata']['entry_level'], signal['atr_percent'] and
\* signal['risk_reward']: a TypeError / KeyError when they are absent.
PromptRaises(signal) ==
    \/ signal.volume_profile = "None"
    \/ ~signal.metadata.has_keys
    \/ ~signal.has_atr_percent

\* analyze_and_confirm_trade; decision_id is "None" or the uuid of the
\* logged decision.
analyze_and_confirm_trade(signal, resp) ==
    IF PromptRaises(signal) \/ resp.raises
    THEN [approved |-> FALSE, adjusted_leverage |-> signal.leverage,
          adjusted_size_pct |-> 100, decision_id |-> "None"]
    ELSE [approved |-> resp.approve,
          adjusted_leverage |-> IF resp.lev # 0 THEN resp.lev
                                ELSE signal.leverage,
          adjusted_size_pct |-> IF resp.size # 0 THEN resp.size ELSE 100,
          decision_id |-> "uuid"]

\* HyperliquidExecutor.market_order: None without a price; simulated
\* success on testnet; not implemented on mainnet.
market_order(price) ==
    IF price = NoPrice THEN "None"
    ELSE IF HYPERLIQUID_TESTNET THEN "success" ELSE "None"

\* execute_trade logging the trade whatever the order result.
execute_trade_Unchecked(signal, confirmation, result) ==
    log_trade(confirmation.decision_id, signal.symbol, signal.direction,
              (usd_size * confirmation.adjusted_size_pct) \div 100,
              confirmation.adjusted_leverage, signal.entry_price,
              signal.stop_loss, signal.target_price, signal.confidence,
              signal.timeframe,
              IF signal.metadata.has_keys
              THEN signal.metadata.timeout_candles ELSE 15)

\* execute_trade: the trades table after the order.
execute_trade(signal, confirmation, result) ==
    IF result = "success"
    THEN log_trade(confirmation.decision_id, signal.symbol, signal.direction,
                   (usd_size * confirmation.adjusted_size_pct) \div 100,
                   confirmation.adjusted_leverage, signal.entry_price,
                   signal.stop_loss, signal.target_price, signal.confidence,
                   signal.timeframe,
                   IF signal.metadata.has_keys
                   THEN signal.metadata.timeout_candles ELSE 15)
    ELSE trades

\* TradingAgent.run: execute_trade is called for approved confirmations.
RunExecutes(confirmation) == confirmation.approved

\* One iteration of the loop of TradingAgent.run with the given advisory
\* answers (the table holds at most MaxTrades rows).
TradeIteration(responses) ==
    /\ pc = "trade"
    /\ signals # << >>
    /\ \E resp \in responses, price \in {NoPrice, 100} :
         LET signal == Head(signals)
             confirmation == analyze_and_confirm_trade(signal, resp)
             order == RunExecutes(confirmation)
             result == market_order(price)
         IN /\ trades' = IF order
                         THEN execute_trade(signal, confirmation, result)
                         ELSE trades
            /\ lastEntry' =
                 [kind |-> "step", symbol |-> signal.symbol,
                  direction |-> signal.direction,
                  raised |-> ~PromptRaises(signal) /\ resp.raises,
                  decided |-> confirmation.decision_id # "None",
                  approved |-> confirmation.approved,
                  order |-> order,
                  result |-> IF order THEN result ELSE "not called",
                  logged |-> order /\ result = "success"]
    /\ Len(trades') <= MaxTrades
    /\ signals' = Tail(signals)
    /\ lastScan' = NoScan
    /\ UNCHANGED <<now, pc, scanIdx, open_positions, model, lastMonitor,
                   exitIn, exitOut, stratIn, stratOut>>

\* An iteration whose advisory answer carries no adjustment line.
TradeStep == TradeIteration(EntryResponses)

\* An iteration whose advisory answer adjusts the leverage or the size.
TradeAdjusted == TradeIteration(AdjustingResponses)

\* TradingAgent.run after the loop (or at once on an empty list): the
\* results are returned.
TradeReturn ==
    /\ pc = "trade"
    /\ signals = << >>
    /\ pc' = "idle"
    /\ lastEntry' = NoEntry
    /\ lastScan' = NoScan
    /\ UNCHANGED <<trades, now, scanIdx, signals, open_positions, model,
                   lastMonitor, exitIn, exitOut, stratIn, stratOut>>

\* TradingAgent.run called directly on a list holding one NEUTRAL signal.
FeedNeutral ==
    /\ pc = "idle"
    /\ Len(trades) < MaxTrades
    /\ \E s \in Symbols, tf \in Timeframes :
         signals' = <<NeutralSignal(s, tf)>>
    /\ pc' = "trade"
    /\ lastEntry' = NoEntry
    /\ lastMonitor' = NoMonitor
    /\ UNCHANGED <<trades, now, scanIdx, open_positions, model, exitIn,
                   exitOut, stratIn, stratOut, lastScan>>

(***************************************************************************)
(* PositionManager: monitoring and exits.                                  *)
(***************************************************************************)

\* Outcomes of the price lookup: the lookup raises, the live price is
\* there, or it is not and the candle fallback gives a close or nothing.
PriceLookups ==
    {[raises |-> TRUE, live |-> NoPrice, candle |-> NoPrice]}
    \cup {[raises |-> FALSE, live |-> p, candle |-> NoPrice] : p \in Prices}
    \cup {[raises |-> FALSE, live |-> NoPrice, candle |-> c] :
             c \in Prices \cup {NoPrice}}

\* Python truthiness of a numeric column: neither None nor 0.
Truthy(x) == x # Null /\ x # 0

\* int(n / d): truncation toward zero, d > 0.
Trunc(n, d) == IF n >= 0 THEN n \div d ELSE -((-n) \div d)

\* candles held, counting every timeframe in minutes.
CandlesHeld_Minutes(timeframe, entry_timestamp) ==
    Trunc(now - entry_timestamp, 60)

\* candles held: int(time_diff.total_seconds() / 60), / 300 or / 900 by
\* timeframe, 0 for any other timeframe.
CandlesHeld(timeframe, entry_timestamp) ==
    IF timeframe = "1m" THEN Trunc(now - entry_timestamp, 60)
    ELSE IF timeframe = "5m" THEN Trunc(now - entry_timestamp, 300)
    ELSE IF timeframe = "15m" THEN Trunc(now - entry_timestamp, 900)
    ELSE 0

\* get_current_price_and_candles falling back on the entry price.
get_current_price_and_candles_Guess(position, lookup) ==
    IF ~lookup.raises /\ lookup.live # NoPrice
    THEN [price |-> lookup.live,
          candles_held |-> CandlesHeld(position.timeframe, position.timestamp)]
    ELSE IF ~lookup.raises /\ lookup.candle # NoPrice
    THEN [price |-> lookup.candle,
          candles_held |-> CandlesHeld(position.timeframe, position.timestamp)]
    ELSE [price |-> position.entry_price,
          candles_held |-> CandlesHeld(position.timeframe, position.timestamp)]

\* get_current_price_and_candles without the fallback on the latest candle.
get_current_price_and_candles_NoFallback(position, lookup) ==
    IF lookup.raises THEN [price |-> NoPrice, candles_held |-> 0]
    ELSE IF lookup.live # NoPrice
    THEN [price |-> lookup.live,
          candles_held |-> CandlesHeld(position.timeframe, position.timestamp)]
    ELSE [price |-> NoPrice, candles_held |-> 0]

\* get_current_price_and_candles counting no candles when the price comes
\* from the latest candle.
get_current_price_and_candles_FallbackNoCount(position, lookup) ==
    IF lookup.raises THEN [price |-> NoPrice, candles_held |-> 0]
    ELSE IF lookup.live # NoPrice
    THEN [price |-> lookup.live,
          candles_held |-> CandlesHeld(position.timeframe, position.timestamp)]
    ELSE IF lookup.candle # NoPrice
    THEN [price |-> lookup.candle, candles_held |-> 0]
    ELSE [price |-> NoPrice, candles_held |-> 0]

\* get_current_price_and_candles: price NoPrice stands for (None, None).
get_current_price_and_candles(position, lookup) ==
    IF lookup.raises THEN [price |-> NoPrice, candles_held |-> 0]
    ELSE IF lookup.live # NoPrice
    THEN [price |-> lookup.live,
          candles_held |-> CandlesHeld(position.timeframe, position.timestamp)]
    ELSE IF lookup.candle # NoPrice
    THEN [price |-> lookup.candle,
          candles_held |-> CandlesHeld(position.timeframe, position.timestamp)]
    ELSE [price |-> NoPrice, candles_held |-> 0]

\* check_exit_conditions with the timeout tested first.
check_exit_conditions_TimeoutFirst(position, current_price, candles_held) ==
    IF /\ Truthy(position.timeout_candles)
       /\ candles_held >= position.timeout_candles
    THEN "timeout"
    ELSE IF /\ Truthy(position.take_profit)
            /\ \/ position.action = "LONG"
                  /\ current_price >= position.take_profit
               \/ position.action = "SHORT"
                  /\ current_price <= position.take_profit
    THEN "take_profit"
    ELSE IF /\ Truthy(position.stop_loss)
            /\ \/ position.action = "LONG"
                  /\ current_price <= position.stop_loss
               \/ position.action = "SHORT"
                  /\ current_price >= position.stop_loss
    THEN "stop_loss"
    ELSE "None"

\* check_exit_conditions: the exit reason, or "None".
check_exit_conditions(position, current_price, candles_held) ==
    IF /\ Truthy(position.take_profit)
       /\ \/ position.action = "LONG" /\ current_price >= position.take_profit
          \/ position.action = "SHORT" /\ current_price <= position.take_profit
    THEN "take_profit"
    ELSE IF /\ Truthy(position.stop_loss)
            /\ \/ position.action = "LONG"
                  /\ current_price <= position.stop_loss
               \/ position.action = "SHORT"
                  /\ current_price >= position.stop_loss
    THEN "stop_loss"
    ELSE IF /\ Truthy(position.timeout_candles)
            /\ candles_held >= position.timeout_candles
    THEN "timeout"
    ELSE "None"

\* Answers of the exit advisory: the call raises, or the first line holds
\* EXIT, or it does not.
ExitResponses == {"raise", "EXIT", "HOLD"}

\* ask_deepseek_to_exit taking any answer of the model for an EXIT.
ask_deepseek_to_exit_AnyAnswer(loaded, resp) ==
    IF ~loaded THEN FALSE
    ELSE IF resp = "raise" THEN FALSE
    ELSE TRUE

\* ask_deepseek_to_exit following the mechanical rule without a model.
ask_deepseek_to_exit_Mechanical(loaded, resp) ==
    IF ~loaded THEN TRUE
    ELSE IF resp = "raise" THEN FALSE
    ELSE resp = "EXIT"

\* ask_deepseek_to_exit: should_exit.
ask_deepseek_to_exit(loaded, resp) ==
    IF ~loaded THEN FALSE
    ELSE IF resp = "raise" THEN FALSE
    ELSE resp = "EXIT"

\* Unrealized PnL, size * (price move) / entry_price * leverage, kept as an
\* exact fraction.
UnrealizedPnl(position, current_price) ==
    [num |-> IF position.action = "LONG"
             THEN position.size * (current_price - position.entry_price)
                  * position.leverage
             ELSE position.size * (position.entry_price - current_price)
                  * position.leverage,
     den |-> position.entry_price]

\* monitor_position: what it did; exit says that an exit action is returned.
monitor_position(position, lookup, resp) ==
    LET got == get_current_price_and_candles(position, lookup)
        reason == check_exit_conditions(position, got.price, got.candles_held)
        ask == reason # "None" /\ AI_CONFIRMATION_REQUIRED
        should_exit == ask_deepseek_to_exit(model, resp)
    IN IF got.price = NoPrice \/ position.entry_price = 0
       THEN [price |-> NoPrice, candles_held |-> 0, updated |-> FALSE,
             checked |-> FALSE, reason |-> "None", asked |-> FALSE,
             should_exit |-> FALSE, exit |-> FALSE, exit_reason |-> "None"]
       ELSE [price |-> got.price, candles_held |-> got.candles_held,
             updated |-> TRUE, checked |-> TRUE, reason |-> reason,
             asked |-> ask, should_exit |-> ask /\ should_exit,
             exit |-> reason # "None" /\ (ask => should_exit),
             exit_reason |-> IF reason = "None" \/ (ask /\ ~should_exit)
                             THEN "None"
                             ELSE IF ask THEN reason \o "_ai_confirmed"
                             ELSE reason]

\* What close_position sees: no position of the symbol in the account, or
\* one and no price, or one and a price.
CloseLookups ==
    { [found |-> FALSE, price |-> NoPrice],
      [found |-> TRUE, price |-> NoPrice],
      [found |-> TRUE, price |-> 100] }

\* HyperliquidExecutor.close_position: None when get_open_position finds no
\* position of the symbol in the exchange account or no price is available;
\* simulated success on testnet; not implemented on mainnet.
close_position(found, price) ==
    IF ~found THEN "None"
    ELSE IF price = NoPrice THEN "None"
    ELSE IF HYPERLIQUID_TESTNET THEN "success" ELSE "None"

\* execute_exit updating the record whatever close_position returned.
execute_exit_Unchecked(tbl, m, trade_id, result) ==
    update_trade(tbl, trade_id, m.price,
                 UnrealizedPnl(tbl[trade_id], m.price),
                 m.exit_reason, "closed")

\* execute_exit: the trades table after the exit attempt.
execute_exit(tbl, m, trade_id, result) ==
    IF result = "success"
    THEN update_trade(tbl, trade_id, m.price,
                      UnrealizedPnl(tbl[trade_id], m.price),
                      m.exit_reason, "closed")
    ELSE tbl

\* PositionManager.run up to the loop: read the open positions; without any
\* it returns at once.
MonitorStart ==
    /\ pc = "idle"
    /\ open_positions' = get_open_positions
    /\ pc' = IF OpenIds = {} THEN "idle" ELSE "monitor"
    /\ lastEntry' = NoEntry
    /\ lastMonitor' = NoMonitor
    /\ UNCHANGED <<trades, now, scanIdx, signals, model, exitIn, exitOut, stratIn, stratOut,
                   lastScan>>

\* The exchange account of a run whose orders were all simulated
\* (market_order on testnet sends nothing to the exchange) and that holds
\* no position opened elsewhere: no symbol has a position.
AccountPositions == {}

\* What close_position sees for a symbol in that account while the price
\* service is reachable.
OwnCloseLookups(symbol) ==
    { [found |-> symbol \in AccountPositions, price |-> 100] }

\* Price lookups while the price service is reachable.
LivePriceLookups ==
    {[raises |-> FALSE, live |-> p, candle |-> NoPrice] : p \in Prices}

\* One iteration of the loop of PositionManager.run: monitor_position and,
\* when it returns an exit action, execute_exit; lookups are the outcomes
\* of the price lookup and closes[symbol] what close_position can see.
MonitorWith(lookups, closes) ==
    /\ pc = "monitor"
    /\ open_positions # << >>
    /\ \E lookup \in lookups, resp \in ExitResponses,
          close \in closes[Head(open_positions).symbol] :
         LET position == Head(open_positions)
             trade_id == position.id
             m == monitor_position(position, lookup, resp)
             result == close_position(close.found, close.price)
             logged == IF m.updated
                       THEN log_position_update(trades, trade_id,
                                                m.candles_held)
                       ELSE trades
         IN /\ trades' = IF m.exit
                         THEN execute_exit(logged, m, trade_id, result)
                         ELSE logged
            /\ lastMonitor' =
                 [kind |-> "step", trade_id |-> trade_id, lookup |-> lookup,
                  price |-> m.price, candles_held |-> m.candles_held,
                  updated |-> m.updated, checked |-> m.checked,
                  reason |-> m.reason, asked |-> m.asked,
                  resp |-> IF m.asked /\ model THEN resp ELSE "None",
                  should_exit |-> m.should_exit,
                  exit_reason |-> m.exit_reason, close |-> m.exit,
                  success |-> m.exit /\ result = "success"]
    /\ open_positions' = Tail(open_positions)
    /\ UNCHANGED <<now, pc, scanIdx, signals, model, lastEntry, exitIn,
                   exitOut, stratIn, stratOut, lastScan>>

\* An iteration with any outcome of the price and account lookups.
MonitorStep == MonitorWith(PriceLookups, [s \in Symbols |-> CloseLookups])

\* An iteration with reachable services and an account that holds only
\* what this system opened.
MonitorOwn ==
    MonitorWith(LivePriceLookups, [s \in Symbols |-> OwnCloseLookups(s)])

\* PositionManager.run after the loop: the summary is returned.
MonitorReturn ==
    /\ pc = "monitor"
    /\ open_positions = << >>
    /\ pc' = "idle"
    /\ lastMonitor' = NoMonitor
    /\ UNCHANGED <<trades, now, scanIdx, signals, open_positions, model,
                   lastEntry, exitIn, exitOut, stratIn, stratOut, lastScan>>

\* The wall clock advances.
Tick ==
    /\ \E d \in TickSteps : now + d <= MaxTime /\ now' = now + d
    /\ UNCHANGED <<trades, pc, scanIdx, signals, open_positions, model,
                   lastEntry, lastMonitor, exitIn, exitOut, stratIn, stratOut,
                   lastScan>>

(***************************************************************************)
(* check_exit_conditions evaluated alone on a range of positions.          *)
(***************************************************************************)

ExitInputs ==
    [position : [action : {"LONG", "SHORT"},
                 take_profit : {Null, 0, 96, 104},
                 stop_loss : {Null, 0, 96, 104},
                 timeout_candles : {0, 15}],
     current_price : {95, 96, 100, 104, 105},
     candles_held : {14, 15, 16}]

NoExitInput ==
    [position |-> [action |-> "LONG", take_profit |-> 0, stop_loss |-> 0,
                   timeout_candles |-> 0],
     current_price |-> 0, candles_held |-> 0]

CheckExit ==
    /\ exitOut = "unset"
    /\ exitOut' = check_exit_conditions(exitIn.position, exitIn.current_price,
                                        exitIn.candles_held)
    /\ UNCHANGED <<trades, now, pc, scanIdx, signals, open_positions, model,
                   lastEntry, lastMonitor, exitIn, stratIn,
                   stratOut, lastScan>>

(***************************************************************************)
(* Specifications.                                                         *)
(***************************************************************************)

\* After construction: an empty store.  PositionManager.__init__ sets model
\* to what model_factory.create_model returns and to None when that call
\* raises.  The ModelFactory of src/src/models/model_factory.py defines
\* get_model and no create_model, so with that class the call raises and
\* the model is None; both outcomes are kept, so that the path
\* monitor_position and ask_deepseek_to_exit take with a loaded model is
\* covered too.
InitStore ==
    /\ trades = << >>
    /\ now = 0
    /\ pc = "idle"
    /\ scanIdx = 0
    /\ signals = << >>
    /\ open_positions = << >>
    /\ model \in BOOLEAN
    /\ lastEntry = NoEntry
    /\ lastMonitor = NoMonitor
    /\ lastScan = NoScan

\* No VolumeProfileStrategy function under evaluation.
NoStrat == [kind |-> "unset"]

Init ==
    /\ InitStore
    /\ exitIn = NoExitInput
    /\ exitOut = "unset"
    /\ stratIn = NoStrat
    /\ stratOut = NoStrat

Next ==
    \/ StrategyStart \/ StrategyStep
    \/ TradeStep \/ TradeReturn
    \/ MonitorStart \/ MonitorStep \/ MonitorReturn
    \/ Tick

Spec == Init /\ [][Next]_vars

\* The same with TradingAgent.run also called on a NEUTRAL signal.
NextDirect == Next \/ FeedNeutral

SpecDirect == Init /\ [][NextDirect]_vars

\* The main loop alone (scan, then entries), with advisory answers that
\* adjust the leverage or the size.
NextAdjust ==
    \/ StrategyStart
    \/ StrategyStep
    \/ TradeStep
    \/ TradeAdjusted
    \/ TradeReturn

SpecAdjust == Init /\ [][NextAdjust]_vars

\* Testnet run with reachable services and no foreign positions in the
\* account.
NextTestnet ==
    \/ StrategyStart
    \/ StrategyStep
    \/ TradeStep
    \/ TradeReturn
    \/ MonitorStart
    \/ MonitorOwn
    \/ MonitorReturn
    \/ Tick

\* Every cycle that has started runs to its end, and PositionManager.run is
\* started again and again.
SpecTestnet ==
    /\ Init
    /\ [][NextTestnet]_vars
    /\ WF_vars(StrategyStep)
    /\ WF_vars(TradeStep)
    /\ WF_vars(TradeReturn)
    /\ SF_vars(MonitorStart)
    /\ WF_vars(MonitorOwn)
    /\ WF_vars(MonitorReturn)

\* check_exit_conditions alone.
InitExit ==
    /\ InitStore
    /\ exitIn \in ExitInputs
    /\ exitOut = "unset"
    /\ stratIn = NoStrat
    /\ stratOut = NoStrat

NextExit == CheckExit

SpecExit == InitExit /\ [][NextExit]_vars

(***************************************************************************)
(* VolumeProfileStrategy evaluated alone.  Prices are integer ticks, the   *)
(* ATR is in hundredths of a percent; NaN stands for a floating-point NaN, *)
(* for which every comparison is false.                                    *)
(***************************************************************************)
NaN == -1000000

\* a <= b on floats.
Le(a, b) == a # NaN /\ b # NaN /\ a <= b

Min(a, b) == IF a <= b THEN a ELSE b

Max(a, b) == IF a >= b THEN a ELSE b

\* A take-profit at the full distance to the POC.
VP_TP_FRACTION_Full == [num |-> 1, den |-> 1]

\* tp_fraction = 0.9 as a fraction.
VP_TP_FRACTION == [num |-> 9, den |-> 10]

\* leverage = min(20, max(2, int(risk_reward * 3))) without the lower limit.
LeverageFor_NoFloor(reward, risk) ==
    Min(20, IF risk > 0 THEN Trunc(3 * reward, risk) ELSE 0)

\* risk_reward = reward / risk if risk > 0 else 0;
\* leverage = min(20, max(2, int(risk_reward * 3))).
LeverageFor(reward, risk) ==
    Min(20, Max(2, IF risk > 0 THEN Trunc(3 * reward, risk) ELSE 0))

\* The LONG branch with the 1-sigma stop placed below the value area low
\* instead of below the -2 sigma band.
LongSignal_StopAtValueArea(current_price, current_low, profile) ==
    LET two == Le(current_low, profile.sigma_2_low)
        stop_loss ==
            IF two
            THEN profile.sigma_2_low - (profile.sigma_2_low * 25) \div 10000
            ELSE profile.value_area_low
                 - (profile.value_area_low * 15) \div 10000
        distance_to_poc == IF profile.poc >= current_price
                           THEN profile.poc - current_price
                           ELSE current_price - profile.poc
        target_price == current_price
                        + (distance_to_poc * VP_TP_FRACTION.num)
                          \div VP_TP_FRACTION.den
        risk == current_price - stop_loss
        reward == target_price - current_price
    IN [direction |-> "LONG", confidence |-> profile.development_score,
        entry_price |-> current_price, target_price |-> target_price,
        stop_loss |-> stop_loss, leverage |-> LeverageFor(reward, risk),
        risk_reward |-> IF risk > 0 THEN [num |-> reward, den |-> risk]
                        ELSE [num |-> 0, den |-> 1],
        volume_profile |-> profile,
        entry_level |-> IF two THEN "2s" ELSE "1s"]

\* The LONG branch of _check_entry_conditions.
LongSignal(current_price, current_low, profile) ==
    LET two == Le(current_low, profile.sigma_2_low)
        stop_loss ==
            IF two
            THEN profile.sigma_2_low - (profile.sigma_2_low * 25) \div 10000
            ELSE profile.sigma_2_low
                 - (profile.value_area_low * 15) \div 10000
        distance_to_poc == IF profile.poc >= current_price
                           THEN profile.poc - current_price
                           ELSE current_price - profile.poc
        target_price == current_price
                        + (distance_to_poc * VP_TP_FRACTION.num)
                          \div VP_TP_FRACTION.den
        risk == current_price - stop_loss
        reward == target_price - current_price
    IN [direction |-> "LONG", confidence |-> profile.development_score,
        entry_price |-> current_price, target_price |-> target_price,
        stop_loss |-> stop_loss, leverage |-> LeverageFor(reward, risk),
        risk_reward |-> IF risk > 0 THEN [num |-> reward, den |-> risk]
                        ELSE [num |-> 0, den |-> 1],
        volume_profile |-> profile,
        entry_level |-> IF two THEN "2s" ELSE "1s"]

\* The SHORT branch with the target computed as in the LONG branch, above
\* the entry.
ShortSignal_TargetAbove(current_price, current_high, profile) ==
    LET two == Le(profile.sigma_2_high, current_high)
        stop_loss ==
            IF two
            THEN profile.sigma_2_high + (profile.sigma_2_high * 25) \div 10000
            ELSE profile.sigma_2_high
                 + (profile.value_area_high * 15) \div 10000
        distance_to_poc == IF profile.poc >= current_price
                           THEN profile.poc - current_price
                           ELSE current_price - profile.poc
        target_price == current_price
                        + (distance_to_poc * VP_TP_FRACTION.num)
                          \div VP_TP_FRACTION.den
        risk == stop_loss - current_price
        reward == current_price - target_price
    IN [direction |-> "SHORT", confidence |-> profile.development_score,
        entry_price |-> current_price, target_price |-> target_price,
        stop_loss |-> stop_loss, leverage |-> LeverageFor(reward, risk),
        risk_reward |-> IF risk > 0 THEN [num |-> reward, den |-> risk]
                        ELSE [num |-> 0, den |-> 1],
        volume_profile |-> profile,
        entry_level |-> IF two THEN "2s" ELSE "1s"]

\* The SHORT branch of _check_entry_conditions.
ShortSignal(current_price, current_high, profile) ==
    LET two == Le(profile.sigma_2_high, current_high)
        stop_loss ==
            IF two
            THEN profile.sigma_2_high + (profile.sigma_2_high * 25) \div 10000
            ELSE profile.sigma_2_high
                 + (profile.value_area_high * 15) \div 10000
        distance_to_poc == IF profile.poc >= current_price
                           THEN profile.poc - current_price
                           ELSE current_price - profile.poc
        target_price == current_price
                        - (distance_to_poc * VP_TP_FRACTION.num)
                          \div VP_TP_FRACTION.den
        risk == stop_loss - current_price
        reward == current_price - target_price
    IN [direction |-> "SHORT", confidence |-> profile.development_score,
        entry_price |-> current_price, target_price |-> target_price,
        stop_loss |-> stop_loss, leverage |-> LeverageFor(reward, risk),
        risk_reward |-> IF risk > 0 THEN [num |-> reward, den |-> risk]
                        ELSE [num |-> 0, den |-> 1],
        volume_profile |-> profile,
        entry_level |-> IF two THEN "2s" ELSE "1s"]

\* _neutral_signal(reason), with the fields the entry signals have.
neutral_signal(reasoning) ==
    [direction |-> "NEUTRAL", confidence |-> 0, entry_price |-> 0,
     target_price |-> 0, stop_loss |-> 0, leverage |-> 1,
     volume_profile |-> "None", reasoning |-> reasoning]

\* _check_entry_conditions without the test that the candle closed inside
\* the value area.
check_entry_conditions_TouchOnly(current_price, current_low, current_high, profile) ==
    IF Le(current_low, profile.value_area_low)
    THEN LongSignal(current_price, current_low, profile)
    ELSE IF Le(profile.value_area_high, current_high)
    THEN ShortSignal(current_price, current_high, profile)
    ELSE neutral_signal("Waiting for mean reversion setup")

\* _check_entry_conditions with the SHORT setup tested before the LONG one.
check_entry_conditions_ShortFirst(current_price, current_low, current_high, profile) ==
    IF /\ Le(profile.value_area_high, current_high)
       /\ Le(profile.value_area_low, current_price)
       /\ Le(current_price, profile.value_area_high)
    THEN ShortSignal(current_price, current_high, profile)
    ELSE IF /\ Le(current_low, profile.value_area_low)
            /\ Le(profile.value_area_low, current_price)
            /\ Le(current_price, profile.value_area_high)
    THEN LongSignal(current_price, current_low, profile)
    ELSE neutral_signal("Waiting for mean reversion setup")

\* _check_entry_conditions.
check_entry_conditions(current_price, current_low, current_high, profile) ==
    IF /\ Le(current_low, profile.value_area_low)
       /\ Le(profile.value_area_low, current_price)
       /\ Le(current_price, profile.value_area_high)
    THEN LongSignal(current_price, current_low, profile)
    ELSE IF /\ Le(profile.value_area_high, current_high)
            /\ Le(profile.value_area_low, current_price)
            /\ Le(current_price, profile.value_area_high)
    THEN ShortSignal(current_price, current_high, profile)
    ELSE neutral_signal("Waiting for mean reversion setup")

\* A profile with bands 2000 ticks apart around a mean of 100000.
BandedProfile(poc, development_score, lookback) ==
    [poc |-> poc, value_area_high |-> 102000, value_area_low |-> 98000,
     sigma_2_high |-> 104000, sigma_2_low |-> 96000,
     mean_price |-> 100000, std_price |-> 2000, developed |-> TRUE,
     development_score |-> development_score, lookback |-> lookback]

\* The bands calculate_volume_profile derives from the volume-weighted mean
\* and standard deviation of a slice.
ProfileOf(mean_price, std_price, poc, development_score, lookback) ==
    [poc |-> poc, value_area_high |-> mean_price + std_price,
     value_area_low |-> mean_price - std_price,
     sigma_2_high |-> mean_price + 2 * std_price,
     sigma_2_low |-> mean_price - 2 * std_price,
     mean_price |-> mean_price, std_price |-> std_price, developed |-> TRUE,
     development_score |-> development_score, lookback |-> lookback]

\* Further evaluations: prices in cents around a POC of 45100.00 with the
\* value area low at 44900.00; a slice whose closes are all equal (standard
\* deviation 0); and a deviation so wide that the -2 sigma band is negative.
EdgeEntryInputs ==
    { [kind |-> "entry", current_price |-> c, current_low |-> l,
       current_high |-> h,
       profile |-> ProfileOf(4510000, 20000, 4510000, 85, 50)] :
        c \in {4495000, 4510000, 4525000},
        l \in {4470000, 4490000, 4495000},
        h \in {4525000, 4530000, 4550000} }
    \cup
    { [kind |-> "entry", current_price |-> 100000, current_low |-> l,
       current_high |-> h,
       profile |-> ProfileOf(100000, 0, poc, 85, 50)] :
        l \in {99000, 100000}, h \in {100000, 101000},
        poc \in {99000, 100000, 101000} }
    \cup
    { [kind |-> "entry", current_price |-> c, current_low |-> l,
       current_high |-> h,
       profile |-> ProfileOf(20000, 12000, poc, 85, 50)] :
        c \in {8000, 20000, 32000},
        l \in {2000, 8000, 10000},
        h \in {30000, 32000, 46000},
        poc \in {18000, 20000} }

\* Candles (low <= close <= high) and profiles _check_entry_conditions is
\* evaluated on.
EntryInputs ==
    EdgeEntryInputs \cup
    { [kind |-> "entry", current_price |-> c, current_low |-> l,
       current_high |-> h, profile |-> BandedProfile(poc, 85, 50)] :
        c \in {97000, 98000, 99000, 100000, 101000, 102000, 103000},
        l \in {95000, 96000, 97000, 98000, 99000, 100000},
        h \in {100000, 101000, 102000, 103000, 104000, 105000},
        poc \in {99000, 100000, 101000} }

CheckEntry ==
    /\ stratIn.kind = "entry"
    /\ stratOut = NoStrat
    /\ stratOut' = check_entry_conditions(stratIn.current_price,
                                          stratIn.current_low,
                                          stratIn.current_high,
                                          stratIn.profile)
    /\ UNCHANGED <<trades, now, pc, scanIdx, signals, open_positions, model,
                   lastEntry, lastMonitor, exitIn, exitOut, stratIn,
                   lastScan>>

\* _check_entry_conditions alone.
InitEntry ==
    /\ InitStore
    /\ exitIn = NoExitInput
    /\ exitOut = "unset"
    /\ stratIn \in {i \in EntryInputs : i.current_low <= i.current_price
                                        /\ i.current_price <= i.current_high}
    /\ stratOut = NoStrat

NextEntry == CheckEntry

SpecEntry == InitEntry /\ [][NextEntry]_vars

(***************************************************************************)
(* _check_development.  The statistics pandas and scipy compute on the     *)
(* closes (POC drift in hundredths of a percent, skewness and kurtosis in  *)
(* hundredths) are inputs; the value area coverage is in whole percent.    *)
(* Scores are kept as multiples of 1/26, which makes them integers.        *)
(***************************************************************************)
ScoreScale == 26

\* max(0, x) of Python: 0 when x is NaN.
Max0(x) == IF x = NaN THEN 0 ELSE Max(0, x)

\* 100 if poc_drift < 0.3 else 100 - (poc_drift - 0.3) * 200, without the
\* max(0, ...).
PocDriftScore_NoFloor(enough, poc_drift) ==
    IF ~enough THEN 50 * ScoreScale
    ELSE IF poc_drift # NaN /\ poc_drift < 30 THEN 100 * ScoreScale
    ELSE IF poc_drift = NaN THEN 0
    ELSE (100 - (poc_drift - 30) * 2) * ScoreScale

\* 1. POC drift: 50 with fewer than 10 candles, else
\* 100 if poc_drift < 0.3 else max(0, 100 - (poc_drift - 0.3) * 200).
PocDriftScore(enough, poc_drift) ==
    IF ~enough THEN 50 * ScoreScale
    ELSE IF poc_drift # NaN /\ poc_drift < 30 THEN 100 * ScoreScale
    ELSE Max0(IF poc_drift = NaN THEN NaN
              ELSE (100 - (poc_drift - 30) * 2) * ScoreScale)

\* 2. 100 if abs(skewness) <= 0.25 else
\* max(0, 100 - (abs(skewness) - 0.25) * 200).
SkewnessScore(skewness) ==
    LET a == IF skewness = NaN THEN NaN
             ELSE IF skewness < 0 THEN -skewness ELSE skewness
    IN IF Le(a, 25) THEN 100 * ScoreScale
       ELSE Max0(IF a = NaN THEN NaN
                 ELSE (100 - (a - 25) * 2) * ScoreScale)

\* 3. 100 if 2.5 <= kurtosis <= 3.5 else
\* max(0, 100 - abs(kurtosis - 3.0) * 50).
KurtosisScore(kurtosis) ==
    IF Le(250, kurtosis) /\ Le(kurtosis, 350) THEN 100 * ScoreScale
    ELSE Max0(IF kurtosis = NaN THEN NaN
              ELSE 100 * ScoreScale
                   - (IF kurtosis >= 300 THEN kurtosis - 300
                      ELSE 300 - kurtosis) * (ScoreScale \div 2))

\* 4. 100 if va_coverage >= 65 else va_coverage * (100 / 65).
ValueAreaScore(va_coverage) ==
    IF va_coverage >= 65 THEN 100 * ScoreScale
    ELSE va_coverage * ((100 * ScoreScale) \div 65)

\* _check_development: (is_developed, quality_score), with the four scores;
\* (False, 0) when a statistic raises.
check_development(stats, va_coverage) ==
    IF stats.raises
    THEN [developed |-> FALSE,
          development_score |-> [num |-> 0, den |-> 1], scores |-> << >>]
    ELSE LET scores == << PocDriftScore(stats.enough, stats.poc_drift),
                          SkewnessScore(stats.skewness),
                          KurtosisScore(stats.kurtosis),
                          ValueAreaScore(va_coverage) >>
             total == scores[1] + scores[2] + scores[3] + scores[4]
         IN [developed |-> total >= 70 * Len(scores) * ScoreScale,
             development_score |->
                 [num |-> total, den |-> Len(scores) * ScoreScale],
             scores |-> scores]

\* Statistics and coverages _check_development is evaluated on.
DevelopmentInputs ==
    [kind : {"development"},
     stats : [raises : BOOLEAN, enough : BOOLEAN,
              poc_drift : {NaN, 0, 29, 30, 31, 80, 500},
              skewness : {NaN, -300, -26, -25, 0, 25, 35, 60},
              kurtosis : {NaN, 100, 249, 250, 300, 350, 351, 900}],
     va_coverage : {0, 39, 64, 65, 100}]

CheckDevelopment ==
    /\ stratIn.kind = "development"
    /\ stratOut = NoStrat
    /\ stratOut' = check_development(stratIn.stats, stratIn.va_coverage)
    /\ UNCHANGED <<trades, now, pc, scanIdx, signals, open_positions, model,
                   lastEntry, lastMonitor, exitIn, exitOut, stratIn,
                   lastScan>>

\* _check_development alone.
InitDevelopment ==
    /\ InitStore
    /\ exitIn = NoExitInput
    /\ exitOut = "unset"
    /\ stratIn \in DevelopmentInputs
    /\ stratOut = NoStrat

NextDevelopment == CheckDevelopment

SpecDevelopment == InitDevelopment /\ [][NextDevelopment]_vars

(***************************************************************************)
(* calculate_volume_profile on a slice of candles.  Mean, standard         *)
(* deviation and POC are rounded down to a tick.                           *)
(***************************************************************************)

\* Candles in a slice (stands for the lookback, 50 to 120 in the program).
SliceLen == 4

RECURSIVE SumSeq(_)
SumSeq(q) == IF q = << >> THEN 0 ELSE Head(q) + SumSeq(Tail(q))

\* np.sqrt, rounded down.
Isqrt(n) == CHOOSE r \in 0..n : r * r <= n /\ n < (r + 1) * (r + 1)

\* No profile: calculate_volume_profile returned None.
NoProfile == [kind |-> "None"]

\* bins, pd.cut and idxmax: the middle of the first of the bins holding the
\* most volume; bin k is (lo + k * size, lo + (k + 1) * size], the lowest
\* edge included.
PocPrice(data, lo, hi) ==
    LET n == Len(data)
        num_bins == Min(50, n \div 2)
        range == hi - lo
        BinOf(c) == CHOOSE k \in 0..(num_bins - 1) :
                      /\ c * num_bins <= lo * num_bins + (k + 1) * range
                      /\ \A j \in 0..(k - 1) :
                            c * num_bins > lo * num_bins + (j + 1) * range
        present == {BinOf(data[i].close) : i \in 1..n}
        VolumeOf(k) == SumSeq([i \in 1..n |->
                                 IF BinOf(data[i].close) = k
                                 THEN data[i].volume ELSE 0])
        poc_bin == CHOOSE k \in present :
                      /\ \A j \in present : VolumeOf(j) <= VolumeOf(k)
                      /\ \A j \in present : j < k => VolumeOf(j) < VolumeOf(k)
    IN lo + ((2 * poc_bin + 1) * range) \div (2 * num_bins)

\* calculate_volume_profile: the profile, or NoProfile when the frame is
\* shorter than the lookback or pd.cut raises on a zero price range.
calculate_volume_profile(df, lookback, stats) ==
    IF Len(df) < lookback THEN NoProfile
    ELSE LET data == SubSeq(df, Len(df) - lookback + 1, Len(df))
             n == Len(data)
             lo == CHOOSE x \in {data[i].low : i \in 1..n} :
                     \A i \in 1..n : x <= data[i].low
             hi == CHOOSE x \in {data[i].high : i \in 1..n} :
                     \A i \in 1..n : x >= data[i].high
             total_volume == SumSeq([i \in 1..n |-> data[i].volume])
             weighted == SumSeq([i \in 1..n |->
                                   data[i].close * data[i].volume])
             mean_price == IF total_volume = 0 THEN NaN
                           ELSE weighted \div total_volume
             variance ==
                 IF total_volume = 0 THEN NaN
                 ELSE SumSeq([i \in 1..n |->
                                (data[i].close - mean_price)
                                * (data[i].close - mean_price)
                                * data[i].volume]) \div total_volume
             std_price == IF variance = NaN THEN NaN ELSE Isqrt(variance)
             Plus(a, b) == IF a = NaN \/ b = NaN THEN NaN ELSE a + b
             value_area_high == Plus(mean_price, std_price)
             value_area_low == Plus(mean_price, -std_price)
             within_va == Cardinality({i \in 1..n :
                              /\ Le(value_area_low, data[i].close)
                              /\ Le(data[i].close, value_area_high)})
             dev == check_development(stats, (100 * within_va) \div n)
         IN IF hi = lo THEN NoProfile
            ELSE [poc |-> PocPrice(data, lo, hi),
                  value_area_high |-> value_area_high,
                  value_area_low |-> value_area_low,
                  sigma_2_high |-> Plus(mean_price, 2 * std_price),
                  sigma_2_low |-> Plus(mean_price, -(2 * std_price)),
                  mean_price |-> mean_price, std_price |-> std_price,
                  developed |-> dev.developed,
                  development_score |-> dev.development_score,
                  lookback |-> lookback]

\* Candles with a wick of w ticks on each side of the close.
Candles(w) ==
    [close : {98, 100, 102}, volume : {0, 2}, wick : {w}]

Candle(c) == [close |-> c.close, high |-> c.close + c.wick,
              low |-> c.close - c.wick, volume |-> c.volume]

\* Frames, lookbacks and statistics calculate_volume_profile is evaluated
\* on.
ProfileInputs ==
    { [kind |-> "profile", df |-> [i \in 1..SliceLen |-> Candle(f[i])],
       lookback |-> lookback, stats |-> stats] :
        f \in UNION {[1..SliceLen -> Candles(w)] : w \in {0, 2}},
        lookback \in {SliceLen, SliceLen + 1},
        stats \in {[raises |-> FALSE, enough |-> TRUE, poc_drift |-> 0,
                    skewness |-> 0, kurtosis |-> 300],
                   [raises |-> FALSE, enough |-> TRUE, poc_drift |-> 80,
                    skewness |-> NaN, kurtosis |-> NaN]} }

CheckProfile ==
    /\ stratIn.kind = "profile"
    /\ stratOut = NoStrat
    /\ stratOut' = calculate_volume_profile(stratIn.df, stratIn.lookback,
                                            stratIn.stats)
    /\ UNCHANGED <<trades, now, pc, scanIdx, signals, open_positions, model,
                   lastEntry, lastMonitor, exitIn, exitOut, stratIn,
                   lastScan>>

\* calculate_volume_profile alone.
InitProfile ==
    /\ InitStore
    /\ exitIn = NoExitInput
    /\ exitOut = "unset"
    /\ stratIn \in ProfileInputs
    /\ stratOut = NoStrat

NextProfile == CheckProfile

SpecProfile == InitProfile /\ [][NextProfile]_vars

(***************************************************************************)
(* generate_signals: data check, volatility gate, lookback search, entry   *)
(* conditions.  What calculate_volume_profile returns for each lookback is *)
(* an input; scores are whole numbers here.                                *)
(***************************************************************************)
VP_LOOKBACK_MIN == 50
VP_LOOKBACK_MAX == 120
\* ATR percentages are in hundredths of a percent: 0.15 and 0.55.
VP_ATR_MIN == 15
VP_ATR_MAX == 55

\* range(lookback_min, lookback_max + 1, 10)
Lookbacks ==
    [k \in 1..((VP_LOOKBACK_MAX - VP_LOOKBACK_MIN) \div 10 + 1) |->
        VP_LOOKBACK_MIN + (k - 1) * 10]

\* generate_signals returned None.
NoSignal == [direction |-> "None"]

\* The volatility gate with strict bounds.
AtrGate_Strict(atr_percent) ==
    /\ atr_percent # NaN
    /\ VP_ATR_MIN < atr_percent
    /\ atr_percent < VP_ATR_MAX

\* The volatility gate: atr_min <= atr_percent <= atr_max.
AtrGate(atr_percent) ==
    Le(VP_ATR_MIN, atr_percent) /\ Le(atr_percent, VP_ATR_MAX)

\* The lookback loop keeping the last of the profiles tied at the best
\* score.
RECURSIVE LookbackSearch_LastTie(_, _, _)
LookbackSearch_LastTie(profiles, k, best) ==
    IF k > Len(Lookbacks) THEN best
    ELSE LET lookback == Lookbacks[k]
             profile == profiles[lookback]
         IN LookbackSearch_LastTie(profiles, k + 1,
              IF /\ profile # NoProfile
                 /\ profile.developed
                 /\ profile.development_score >= best.best_score
              THEN [best_profile |-> profile,
                    best_score |-> profile.development_score,
                    optimal_lookback |-> lookback,
                    profile_calls |-> Append(best.profile_calls, lookback)]
              ELSE [best EXCEPT
                      !.profile_calls = Append(best.profile_calls, lookback)])

\* The lookback loop from its k-th candidate on: best_profile, best_score,
\* self.optimal_lookback and the lookbacks calculate_volume_profile was
\* called with.
RECURSIVE LookbackSearch(_, _, _)
LookbackSearch(profiles, k, best) ==
    IF k > Len(Lookbacks) THEN best
    ELSE LET lookback == Lookbacks[k]
             profile == profiles[lookback]
         IN LookbackSearch(profiles, k + 1,
              IF /\ profile # NoProfile
                 /\ profile.developed
                 /\ profile.development_score > best.best_score
              THEN [best_profile |-> profile,
                    best_score |-> profile.development_score,
                    optimal_lookback |-> lookback,
                    profile_calls |-> Append(best.profile_calls, lookback)]
              ELSE [best EXCEPT
                      !.profile_calls = Append(best.profile_calls, lookback)])

\* generate_signals with the volatility gate tested after the search.
GenerateSignals_GateAfterSearch(frame_ok, atr_percent, profiles, candle, optimal_lookback) ==
    LET start == [best_profile |-> NoProfile, best_score |-> 0,
                  optimal_lookback |-> optimal_lookback,
                  profile_calls |-> << >>]
        found == LookbackSearch(profiles, 1, start)
    IN IF ~frame_ok
       THEN [signal |-> NoSignal, best_profile |-> NoProfile,
             optimal_lookback |-> optimal_lookback, profile_calls |-> << >>]
       ELSE IF ~AtrGate(atr_percent)
       THEN [signal |-> neutral_signal("ATR outside optimal range"),
             best_profile |-> NoProfile,
             optimal_lookback |-> found.optimal_lookback,
             profile_calls |-> found.profile_calls]
       ELSE [signal |->
               IF found.best_profile = NoProfile
               THEN neutral_signal("Volume profile not developed")
               ELSE check_entry_conditions(candle.current_price,
                                           candle.current_low,
                                           candle.current_high,
                                           found.best_profile),
             best_profile |-> found.best_profile,
             optimal_lookback |-> found.optimal_lookback,
             profile_calls |-> found.profile_calls]

\* generate_signals: the signal returned, with the profile the search
\* selected, self.optimal_lookback afterwards and the lookbacks
\* calculate_volume_profile was called with.
GenerateSignals(frame_ok, atr_percent, profiles, candle, optimal_lookback) ==
    LET start == [best_profile |-> NoProfile, best_score |-> 0,
                  optimal_lookback |-> optimal_lookback,
                  profile_calls |-> << >>]
        found == LookbackSearch(profiles, 1, start)
    IN IF ~frame_ok
       THEN [signal |-> NoSignal, best_profile |-> NoProfile,
             optimal_lookback |-> optimal_lookback, profile_calls |-> << >>]
       ELSE IF ~AtrGate(atr_percent)
       THEN [signal |-> neutral_signal("ATR outside optimal range"),
             best_profile |-> NoProfile,
             optimal_lookback |-> optimal_lookback, profile_calls |-> << >>]
       ELSE [signal |->
               IF found.best_profile = NoProfile
               THEN neutral_signal("Volume profile not developed")
               ELSE check_entry_conditions(candle.current_price,
                                           candle.current_low,
                                           candle.current_high,
                                           found.best_profile),
             best_profile |-> found.best_profile,
             optimal_lookback |-> found.optimal_lookback,
             profile_calls |-> found.profile_calls]

\* What calculate_volume_profile returns for a lookback: nothing (Null), or
\* a profile with the given score, developed when the score is >= 70.
ProfileOutcome(lookback, score) ==
    IF score = Null THEN NoProfile
    ELSE [BandedProfile(100000, score, lookback) EXCEPT
            !.developed = score >= 70]

\* Current candles: a wick through the value area low, one through the
\* value area high, and one inside the value area.
SignalCandles ==
    { [current_price |-> 99000, current_low |-> 97000,
       current_high |-> 100000],
      [current_price |-> 101000, current_low |-> 100000,
       current_high |-> 103000],
      [current_price |-> 100000, current_low |-> 99000,
       current_high |-> 101000] }

\* Evaluations of generate_signals: every volatility against a few frames,
\* and every combination of profiles with the volatility inside the band.
SignalInputs ==
    { [kind |-> "signal", frame_ok |-> ok, atr_percent |-> atr,
       profiles |-> [l \in {Lookbacks[k] : k \in 1..Len(Lookbacks)} |->
                        ProfileOutcome(l, score)],
       candle |-> candle, optimal_lookback |-> opt] :
        ok \in BOOLEAN,
        atr \in {NaN, 0, 14, 15, 16, 35, 54, 55, 56, 200},
        score \in {Null, 60, 85},
        candle \in SignalCandles,
        opt \in {50, 80} }
    \cup
    { [kind |-> "signal", frame_ok |-> TRUE, atr_percent |-> 35,
       profiles |-> [l \in {Lookbacks[k] : k \in 1..Len(Lookbacks)} |->
                        ProfileOutcome(l, scores[l])],
       candle |-> [current_price |-> 99000, current_low |-> 97000,
                   current_high |-> 100000],
       optimal_lookback |-> 50] :
        scores \in [{Lookbacks[k] : k \in 1..Len(Lookbacks)} ->
                      {Null, 60, 70, 85}] }

CheckSignal ==
    /\ stratIn.kind = "signal"
    /\ stratOut = NoStrat
    /\ stratOut' = GenerateSignals(stratIn.frame_ok, stratIn.atr_percent,
                                   stratIn.profiles, stratIn.candle,
                                   stratIn.optimal_lookback)
    /\ UNCHANGED <<trades, now, pc, scanIdx, signals, open_positions, model,
                   lastEntry, lastMonitor, exitIn, exitOut, stratIn,
                   lastScan>>

\* generate_signals alone.
InitSignal ==
    /\ InitStore
    /\ model = FALSE
    /\ exitIn = NoExitInput
    /\ exitOut = "unset"
    /\ stratIn \in SignalInputs
    /\ stratOut = NoStrat

NextSignal == CheckSignal

SpecSignal == InitSignal /\ [][NextSignal]_vars

(***************************************************************************)
(* get_current_price_and_candles followed by check_exit_conditions, on     *)
(* positions of any timeframe held for up to a day.                        *)
(***************************************************************************)
\* Seconds on the clock when the position is looked at.
CandleTimes ==
    {0, 30, 59, 60, 61, 299, 300, 330, 899, 900, 930, 1799, 1800, 54000,
     86400}

\* Timeframes a position can carry: the three the code knows and two others.
PositionTimeframes == {"1m", "5m", "15m", "1h", "4h"}

\* Positions, lookups and clock values the two functions are evaluated on.
CandleInputs ==
    { [kind |-> "candles",
       position |-> [timeframe |-> tf, timestamp |-> ts, action |-> "LONG",
                     entry_price |-> 100, take_profit |-> tp,
                     stop_loss |-> 90,
                     timeout_candles |-> VP_TIMEOUT_CANDLES],
       lookup |-> lookup] :
        tf \in PositionTimeframes, ts \in {0, 30}, tp \in {104, 110},
        lookup \in PriceLookups }

CheckCandles ==
    /\ stratIn.kind = "candles"
    /\ stratOut = NoStrat
    /\ stratOut' =
         LET got == get_current_price_and_candles(stratIn.position,
                                                  stratIn.lookup)
         IN [price |-> got.price, candles_held |-> got.candles_held,
             reason |-> IF got.price = NoPrice THEN "None"
                        ELSE check_exit_conditions(stratIn.position, got.price,
                                                   got.candles_held)]
    /\ UNCHANGED <<trades, now, pc, scanIdx, signals, open_positions, model,
                   lastEntry, lastMonitor, exitIn, exitOut, stratIn,
                   lastScan>>

\* The two functions alone; the clock is at or after the entry timestamp.
InitCandles ==
    /\ trades = << >>
    /\ pc = "idle"
    /\ scanIdx = 0
    /\ signals = << >>
    /\ open_positions = << >>
    /\ model = FALSE
    /\ lastEntry = NoEntry
    /\ lastMonitor = NoMonitor
    /\ lastScan = NoScan
    /\ exitIn = NoExitInput
    /\ exitOut = "unset"
    /\ stratIn \in CandleInputs
    /\ now \in {t \in CandleTimes : t >= stratIn.position.timestamp}
    /\ stratOut = NoStrat

NextCandles == CheckCandles

SpecCandles == InitCandles /\ [][NextCandles]_vars

(***************************************************************************)
(* Properties.                                                             *)
(***************************************************************************)

\* A step that is one iteration of the loop of PositionManager.run.
MonitorIteration ==
    /\ pc = "monitor"
    /\ open_positions # << >>
    /\ open_positions' # open_positions

\* A step that is one iteration of the loop of TradingAgent.run.
EntryIteration ==
    /\ pc = "trade"
    /\ signals # << >>
    /\ signals' # signals

\* C1: in every reachable state the trade store holds at most one trade
\* with status 'open' for any given symbol.
C1_OneOpenPerSymbol ==
    \A i, j \in OpenIds : trades[i].symbol = trades[j].symbol => i = j

\* C2: for a position with non-zero take_profit, stop_loss and
\* timeout_candles, check_exit_conditions returns 'take_profit' when the
\* price has reached the take-profit on the position's side, otherwise
\* 'stop_loss' when it has reached the stop-loss, otherwise 'timeout' when
\* candles_held >= timeout_candles, otherwise no exit; take-profit and
\* timeout breached together give 'take_profit'.
C2_ExitPriority ==
    LET position == exitIn.position
        price == exitIn.current_price
        long == position.action = "LONG"
        short == position.action = "SHORT"
    IN (/\ exitOut # "unset"
        /\ position.take_profit # Null /\ position.take_profit # 0
        /\ position.stop_loss # Null /\ position.stop_loss # 0
        /\ position.timeout_candles # 0)
       => exitOut =
            IF (long /\ price >= position.take_profit)
               \/ (short /\ price <= position.take_profit)
            THEN "take_profit"
            ELSE IF (long /\ price <= position.stop_loss)
                    \/ (short /\ price >= position.stop_loss)
            THEN "stop_loss"
            ELSE IF exitIn.candles_held >= position.timeout_candles
            THEN "timeout"
            ELSE "None"

\* C2 witness: take-profit and timeout are breached in the same evaluation
\* and 'take_profit' is reported.
C2_Witness ==
    /\ exitOut = "take_profit"
    /\ exitIn.position.stop_loss = 96
    /\ exitIn.position.timeout_candles = 15
    /\ exitIn.candles_held >= 15

\* C3: a trade goes from 'open' to 'closed' only in a monitoring iteration on
\* it in which an exit condition was met, the approval was affirmative and
\* close_position reported success; after a failed close the record is still
\* 'open' with no exit_price, pnl or exit reason written; and a monitoring
\* cycle starts with every open trade in its list.
C3_CloseOnlyOnConfirmedExit ==
    [][ /\ \A i \in 1..Len(trades) :
             (trades[i].status = "open" /\ trades'[i].status = "closed")
             => /\ MonitorIteration
                /\ lastMonitor'.trade_id = i
                /\ lastMonitor'.reason \in {"take_profit", "stop_loss",
                                            "timeout"}
                /\ lastMonitor'.should_exit
                /\ lastMonitor'.success
        /\ (MonitorIteration /\ lastMonitor'.close /\ ~lastMonitor'.success)
           => LET i == lastMonitor'.trade_id
              IN /\ trades'[i].status = "open"
                 /\ trades'[i].exit_price = Null
                 /\ trades'[i].pnl = [num |-> 0, den |-> 1]
                 /\ trades'[i].exit_strategy = "NULL"
        /\ (pc = "idle" /\ pc' = "monitor")
           => \A i \in OpenIds :
                 \E k \in 1..Len(open_positions') : open_positions'[k].id = i
      ]_vars

\* C3 witness: a close was attempted and failed, and the trade is still open.
C3_Witness ==
    /\ lastMonitor.kind = "step"
    /\ lastMonitor.close
    /\ ~lastMonitor.success
    /\ trades[lastMonitor.trade_id].status = "open"

\* C4: when an exit condition is met and the advisory answers hold, no exit
\* action is produced and the trade stays open; when it answers exit, the
\* exit reason is the mechanical reason with '_ai_confirmed' appended; and a
\* record's exit reason is written only in an iteration in which the
\* advisory answered exit.
C4_VetoAndSuffix ==
    [][ /\ (MonitorIteration /\ lastMonitor'.asked
            /\ lastMonitor'.resp = "HOLD")
           => /\ ~lastMonitor'.close
              /\ trades'[lastMonitor'.trade_id].status = "open"
        /\ (MonitorIteration /\ lastMonitor'.asked
            /\ lastMonitor'.resp = "EXIT")
           => /\ lastMonitor'.close
              /\ lastMonitor'.reason \in {"take_profit", "stop_loss",
                                          "timeout"}
              /\ lastMonitor'.exit_reason =
                    lastMonitor'.reason \o "_ai_confirmed"
        /\ \A i \in 1..Len(trades) :
             trades'[i].exit_strategy # trades[i].exit_strategy
             => /\ MonitorIteration
                /\ lastMonitor'.trade_id = i
                /\ lastMonitor'.resp = "EXIT"
                /\ trades'[i].exit_strategy =
                      lastMonitor'.reason \o "_ai_confirmed"
        /\ Len(trades') > Len(trades)
           => trades'[Len(trades')].exit_strategy = "NULL"
      ]_vars

\* C4 witness: the advisory answered exit on a take-profit and the record
\* carries the suffixed reason.
C4_Witness ==
    /\ lastMonitor.kind = "step"
    /\ lastMonitor.resp = "EXIT"
    /\ lastMonitor.success
    /\ trades[lastMonitor.trade_id].exit_strategy = "take_profit_ai_confirmed"

C6_TradeOnlyOnApprovedFilledOrder ==
    [][ /\ Len(trades') > Len(trades)
           => /\ EntryIteration
              /\ lastEntry'.approved
              /\ lastEntry'.result = "success"
              /\ Len(trades') = Len(trades) + 1
              /\ trades'[Len(trades')].status = "open"
              /\ trades'[Len(trades')].symbol = Head(signals).symbol
        /\ (EntryIteration /\ ~lastEntry'.approved)
           => /\ lastEntry'.result = "not called"
              /\ trades' = trades
        /\ (EntryIteration /\ lastEntry'.result # "success")
           => trades' = trades
      ]_vars

\* C6 witness: an approved signal whose order returned nothing.
C6_Witness ==
    /\ lastEntry.kind = "step"
    /\ lastEntry.approved
    /\ lastEntry.result = "None"
    /\ ~lastEntry.logged

\* C7: a NEUTRAL signal never creates a position: the scan puts none into
\* the list it returns, and an entry iteration on a NEUTRAL signal places no
\* order and logs no trade, whatever the advisory answers.
C7_NeutralNeverOpens ==
    [][ /\ pc = "scan"
           => \A k \in 1..Len(signals') : signals'[k].direction # "NEUTRAL"
        /\ (EntryIteration /\ Head(signals).direction = "NEUTRAL")
           => /\ ~lastEntry'.order
              /\ lastEntry'.result = "not called"
              /\ trades' = trades
        /\ \A i \in 1..Len(trades') : trades'[i].action # "NEUTRAL"
      ]_vars

\* C7 witness: TradingAgent.run has processed a NEUTRAL signal.
C7_Witness ==
    /\ lastEntry.kind = "step"
    /\ lastEntry.direction = "NEUTRAL"
    /\ ~lastEntry.logged

\* C8: a closed trade is never changed again, a monitoring cycle starts with
\* open trades only, and every monitoring iteration is on a trade that is
\* open.
C8_ClosedIsTerminal ==
    [][ /\ \A i \in 1..Len(trades) :
             trades[i].status = "closed" => trades'[i] = trades[i]
        /\ (pc = "idle" /\ pc' = "monitor")
           => \A k \in 1..Len(open_positions') :
                 /\ open_positions'[k].status = "open"
                 /\ trades[open_positions'[k].id].status = "open"
        /\ MonitorIteration
           => trades[Head(open_positions).id].status = "open"
      ]_vars

\* C8 witness: one trade is closed and another has been monitored since.
C8_Witness ==
    \E i \in 1..Len(trades) :
        /\ trades[i].status = "closed"
        /\ lastMonitor.kind = "step"
        /\ lastMonitor.trade_id # i
        /\ lastMonitor.updated

\* C9: a new record takes take_profit, stop_loss, entry_price, direction and
\* timeout_candles from the signal; afterwards no step changes anything of a
\* record but candles_held, status, exit_price, pnl and exit reason, and the
\* last four change only when the trade goes from 'open' to 'closed'.
C9_ExitLevelsFrozen ==
    [][ /\ Len(trades') > Len(trades)
           => LET signal == Head(signals)
                  row == trades'[Len(trades')]
              IN /\ EntryIteration
                 /\ row.take_profit = signal.target_price
                 /\ row.stop_loss = signal.stop_loss
                 /\ row.entry_price = signal.entry_price
                 /\ row.action = signal.direction
                 /\ row.timeout_candles = signal.metadata.timeout_candles
        /\ \A i \in 1..Len(trades) :
             /\ [trades'[i] EXCEPT !.candles_held = 0, !.status = "",
                                   !.exit_price = 0, !.pnl = 0,
                                   !.exit_strategy = ""]
                = [trades[i] EXCEPT !.candles_held = 0, !.status = "",
                                    !.exit_price = 0, !.pnl = 0,
                                    !.exit_strategy = ""]
             /\ [trades'[i] EXCEPT !.candles_held = 0] #
                   [trades[i] EXCEPT !.candles_held = 0]
                => trades[i].status = "open" /\ trades'[i].status = "closed"
             /\ trades'[i].candles_held # trades[i].candles_held
                => MonitorIteration /\ lastMonitor'.trade_id = i
      ]_vars

\* C9 witness: a timeout exit was vetoed after 15 candles; the record holds
\* the count and is still open.
C9_Witness ==
    /\ lastMonitor.kind = "step"
    /\ lastMonitor.reason = "timeout"
    /\ lastMonitor.resp = "HOLD"
    /\ trades[lastMonitor.trade_id].candles_held = 15
    /\ trades[lastMonitor.trade_id].status = "open"

\* C10: a monitoring iteration whose price lookup raises, or finds neither a
\* live price nor a candle close, logs no position update, evaluates no exit
\* condition, asks for no approval, calls no close and leaves the trade
\* records as they were.
C10_AbstainWithoutPrice ==
    [][ (/\ MonitorIteration
         /\ \/ lastMonitor'.lookup.raises
            \/ /\ lastMonitor'.lookup.live = NoPrice
               /\ lastMonitor'.lookup.candle = NoPrice)
        => /\ ~lastMonitor'.updated
           /\ ~lastMonitor'.checked
           /\ ~lastMonitor'.asked
           /\ ~lastMonitor'.close
           /\ trades' = trades
      ]_vars

\* C10 witness: an iteration found neither a live price nor a candle close.
C10_Witness ==
    /\ lastMonitor.kind = "step"
    /\ ~lastMonitor.lookup.raises
    /\ lastMonitor.lookup.live = NoPrice
    /\ lastMonitor.lookup.candle = NoPrice
    /\ trades[lastMonitor.trade_id].status = "open"

\* C16: a LONG or SHORT signal whose risk_reward is <= 0 has leverage 2, and
\* the leverage of a LONG or SHORT signal is always a positive integer.
C16_NonPositiveRiskRewardGivesMinimum ==
    (stratIn.kind = "entry" /\ stratOut # NoStrat
     /\ stratOut.direction \in {"LONG", "SHORT"})
    => /\ stratOut.leverage \in Nat
       /\ stratOut.leverage >= 1
       /\ stratOut.risk_reward.num <= 0 => stratOut.leverage = 2

\* C16 witness: a LONG signal whose close is at the POC: reward 0,
\* risk_reward 0, leverage 2.
C16_Witness ==
    /\ stratIn.kind = "entry"
    /\ stratOut # NoStrat
    /\ stratOut.direction = "LONG"
    /\ stratOut.risk_reward.num = 0
    /\ stratOut.leverage = 2

\* C17: the leverage of a LONG or SHORT signal is risk_reward * 3 rounded to
\* the nearest integer, then limited to [2, 20].
C17_LeverageIsRounded ==
    (stratIn.kind = "entry" /\ stratOut # NoStrat
     /\ stratOut.direction \in {"LONG", "SHORT"})
    => LET num == stratOut.risk_reward.num
           den == stratOut.risk_reward.den
       IN \E n \in 0..((3 * num) \div den + 1) :
             /\ 2 * (3 * num - n * den) <= den
             /\ 2 * (n * den - 3 * num) <= den
             /\ stratOut.leverage = Min(20, Max(2, n))

\* C19: _check_entry_conditions returns LONG when the low touched the value
\* area low and the close is inside the value area, otherwise SHORT when the
\* high touched the value area high and the close is inside, otherwise
\* NEUTRAL.
C19_EntryDirection ==
    (stratIn.kind = "entry" /\ stratOut # NoStrat)
    => LET va_low == stratIn.profile.value_area_low
           va_high == stratIn.profile.value_area_high
           inside == va_low <= stratIn.current_price
                     /\ stratIn.current_price <= va_high
       IN stratOut.direction =
            IF stratIn.current_low <= va_low /\ inside THEN "LONG"
            ELSE IF stratIn.current_high >= va_high /\ inside THEN "SHORT"
            ELSE "NEUTRAL"

\* C19 witness: the low went through the value area low and the candle
\* closed below it: NEUTRAL.
C19_Witness ==
    /\ stratIn.kind = "entry"
    /\ stratOut # NoStrat
    /\ stratIn.current_low <= stratIn.profile.value_area_low
    /\ stratIn.current_price < stratIn.profile.value_area_low
    /\ stratOut.direction = "NEUTRAL"

\* C20: a LONG signal is a 2-sigma entry exactly when the low reached the
\* -2 sigma band; its stop is sigma2_low - sigma2_low * 0.0025 then, and
\* sigma2_low - value_area_low * 0.0015 for a 1-sigma entry; a SHORT signal
\* mirrors this with the high and the +2 sigma band.
C20_EntryLevelAndStop ==
    (stratIn.kind = "entry" /\ stratOut # NoStrat)
    => LET profile == stratIn.profile
       IN /\ stratOut.direction = "LONG"
             => IF stratIn.current_low <= profile.sigma_2_low
                THEN /\ stratOut.entry_level = "2s"
                     /\ (profile.sigma_2_low - stratOut.stop_loss) * 10000
                           = profile.sigma_2_low * 25
                ELSE /\ stratOut.entry_level = "1s"
                     /\ (profile.sigma_2_low - stratOut.stop_loss) * 10000
                           = profile.value_area_low * 15
          /\ stratOut.direction = "SHORT"
             => IF stratIn.current_high >= profile.sigma_2_high
                THEN /\ stratOut.entry_level = "2s"
                     /\ (stratOut.stop_loss - profile.sigma_2_high) * 10000
                           = profile.sigma_2_high * 25
                ELSE /\ stratOut.entry_level = "1s"
                     /\ (stratOut.stop_loss - profile.sigma_2_high) * 10000
                           = profile.value_area_high * 15

\* C20 witness: a 1-sigma LONG entry with its stop just below the -2 sigma
\* band.
C20_Witness ==
    /\ stratIn.kind = "entry"
    /\ stratOut # NoStrat
    /\ stratOut.direction = "LONG"
    /\ stratOut.entry_level = "1s"
    /\ stratOut.stop_loss = 95853

C14_ZeroVolumeGivesNoProfile ==
    (/\ stratIn.kind = "profile"
     /\ stratOut # NoStrat
     /\ stratIn.lookback <= Len(stratIn.df)
     /\ \A i \in 1..Len(stratIn.df) : stratIn.df[i].volume = 0)
    => stratOut = NoProfile

\* The lookbacks of an evaluation whose profile is developed.
DevelopedLookbacks ==
    { l \in DOMAIN stratIn.profiles :
        /\ stratIn.profiles[l] # NoProfile
        /\ stratIn.profiles[l].developed }

\* The evaluation got past the data check and the volatility lies in
\* [atr_min, atr_max].
SignalInBand ==
    /\ stratIn.kind = "signal"
    /\ stratOut # NoStrat
    /\ stratIn.frame_ok
    /\ stratIn.atr_percent # NaN
    /\ VP_ATR_MIN <= stratIn.atr_percent
    /\ stratIn.atr_percent <= VP_ATR_MAX

\* The evaluation got past the data check and the volatility lies outside
\* [atr_min, atr_max] (or is not a number).
SignalOutOfBand ==
    /\ stratIn.kind = "signal"
    /\ stratOut # NoStrat
    /\ stratIn.frame_ok
    /\ \/ stratIn.atr_percent = NaN
       \/ stratIn.atr_percent < VP_ATR_MIN
       \/ stratIn.atr_percent > VP_ATR_MAX

\* C11: the lookback search never selects an undeveloped profile; when some
\* candidate lookback yields a developed profile it selects one with the
\* maximum development_score among the developed candidates, the smallest
\* lookback among those tied at the maximum; when none is developed the
\* result is a NEUTRAL signal.
C11_LookbackSearch ==
    SignalInBand
    => /\ stratOut.best_profile # NoProfile => stratOut.best_profile.developed
       /\ DevelopedLookbacks # {}
          => /\ stratOut.best_profile # NoProfile
             /\ stratOut.best_profile.lookback \in DevelopedLookbacks
             /\ stratOut.optimal_lookback = stratOut.best_profile.lookback
             /\ \A l \in DevelopedLookbacks :
                   /\ stratIn.profiles[l].development_score
                        <= stratOut.best_profile.development_score
                   /\ stratIn.profiles[l].development_score
                        = stratOut.best_profile.development_score
                      => stratOut.best_profile.lookback <= l
       /\ DevelopedLookbacks = {}
          => /\ stratOut.best_profile = NoProfile
             /\ stratOut.signal.direction = "NEUTRAL"

\* C11 witness: lookbacks 70 and 100 are tied at the maximum score 85, an
\* earlier lookback is developed with a lower score, and 70 is selected.
C11_Witness ==
    /\ SignalInBand
    /\ stratIn.profiles[50] # NoProfile
    /\ stratIn.profiles[50].development_score = 70
    /\ stratIn.profiles[60] # NoProfile
    /\ stratIn.profiles[60].development_score = 60
    /\ stratIn.profiles[70] # NoProfile
    /\ stratIn.profiles[70].development_score = 85
    /\ stratIn.profiles[100] # NoProfile
    /\ stratIn.profiles[100].development_score = 85
    /\ stratOut.best_profile # NoProfile
    /\ stratOut.best_profile.lookback = 70
    /\ stratOut.optimal_lookback = 70

\* The result of an evaluation is the volatility gate's rejection.
GateRejected ==
    /\ stratOut.signal.direction = "NEUTRAL"
    /\ stratOut.signal.reasoning = "ATR outside optimal range"

\* C12: the volatility gate accepts exactly when
\* atr_min <= atr_percent <= atr_max, the two bounds included; every other
\* value gets the gate's NEUTRAL signal.
C12_AtrGateInclusive ==
    /\ SignalInBand => ~GateRejected
    /\ SignalOutOfBand => GateRejected

\* C12 witness: atr_percent equals atr_max and the evaluation goes on to a
\* LONG signal from a developed profile.
C12_Witness ==
    /\ SignalInBand
    /\ stratIn.atr_percent = VP_ATR_MAX
    /\ stratOut.signal.direction = "LONG"
    /\ stratOut.profile_calls # << >>

\* C13: when the volatility gate rejects, the result is NEUTRAL,
\* calculate_volume_profile was called for no lookback and optimal_lookback
\* is what it was before the evaluation.
C13_GateShortCircuits ==
    SignalOutOfBand
    => /\ stratOut.signal.direction = "NEUTRAL"
       /\ stratOut.profile_calls = << >>
       /\ stratOut.optimal_lookback = stratIn.optimal_lookback

\* C13 witness: the volatility is just above atr_max, every lookback would
\* yield a developed profile, and optimal_lookback is still 80 afterwards.
C13_Witness ==
    /\ SignalOutOfBand
    /\ stratIn.atr_percent = VP_ATR_MAX + 1
    /\ stratIn.optimal_lookback = 80
    /\ DevelopedLookbacks = DOMAIN stratIn.profiles
    /\ stratOut.optimal_lookback = 80
    /\ stratOut.profile_calls = << >>

\* C18: every signal generate_signals returns, LONG, SHORT or NEUTRAL, has
\* a leverage within [2, 20].
C18_SignalLeverageInRange ==
    (/\ stratIn.kind = "signal"
     /\ stratOut # NoStrat
     /\ stratOut.signal # NoSignal)
    => stratOut.signal.leverage \in 2..20

\* C21: the target of a LONG signal is entry + 0.9 * |poc - entry| and the
\* target of a SHORT signal is entry - 0.9 * |entry - poc|, the entry being
\* the current close.
C21_TargetPrice ==
    (stratIn.kind = "entry" /\ stratOut # NoStrat
     /\ stratOut.direction \in {"LONG", "SHORT"})
    => LET entry == stratIn.current_price
           poc == stratIn.profile.poc
           distance == IF poc >= entry THEN poc - entry ELSE entry - poc
       IN /\ stratOut.entry_price = entry
          /\ stratOut.direction = "LONG"
             => 10 * stratOut.target_price = 10 * entry + 9 * distance
          /\ stratOut.direction = "SHORT"
             => 10 * stratOut.target_price = 10 * entry - 9 * distance

\* C21 witness: poc 45100.00, low 44900.00 on the value area low, close
\* 44950.00: a 1-sigma LONG signal with target 45085.00.
C21_Witness ==
    /\ stratIn.kind = "entry"
    /\ stratOut # NoStrat
    /\ stratIn.profile.poc = 4510000
    /\ stratIn.profile.value_area_low = 4490000
    /\ stratIn.current_low = 4490000
    /\ stratIn.current_price = 4495000
    /\ stratOut.direction = "LONG"
    /\ stratOut.entry_level = "1s"
    /\ stratOut.target_price = 4508500

\* C29: a candle whose low is at or below the value area low, whose high is
\* at or above the value area high and whose close is inside the value area
\* gives a LONG signal.
C29_LongTakesPrecedence ==
    (/\ stratIn.kind = "entry"
     /\ stratOut # NoStrat
     /\ stratIn.current_low <= stratIn.profile.value_area_low
     /\ stratIn.current_high >= stratIn.profile.value_area_high
     /\ stratIn.profile.value_area_low <= stratIn.current_price
     /\ stratIn.current_price <= stratIn.profile.value_area_high)
    => stratOut.direction = "LONG"

\* C29 witness: the candle spans the value area from 98000 to 102000, closes
\* at 100000, and the signal is LONG.
C29_Witness ==
    /\ stratIn.kind = "entry"
    /\ stratOut # NoStrat
    /\ stratIn.current_low = 98000
    /\ stratIn.current_high = 102000
    /\ stratIn.current_price = 100000
    /\ stratOut.direction = "LONG"

\* C30: with positive prices and a standard deviation >= 0, a LONG signal
\* has stop_loss < entry_price <= target_price and a SHORT signal has
\* target_price <= entry_price < stop_loss, so risk_reward is >= 0 and its
\* denominator (the risk) is positive.
C30_StopEntryTargetOrder ==
    (/\ stratIn.kind = "entry"
     /\ stratOut # NoStrat
     /\ stratOut.direction \in {"LONG", "SHORT"}
     /\ stratIn.current_low > 0
     /\ stratIn.profile.poc > 0
     /\ stratIn.profile.mean_price > 0
     /\ stratIn.profile.std_price >= 0)
    => /\ stratOut.direction = "LONG"
          => /\ stratOut.stop_loss < stratOut.entry_price
             /\ stratOut.entry_price <= stratOut.target_price
             /\ stratOut.risk_reward.den
                  = stratOut.entry_price - stratOut.stop_loss
       /\ stratOut.direction = "SHORT"
          => /\ stratOut.target_price <= stratOut.entry_price
             /\ stratOut.entry_price < stratOut.stop_loss
             /\ stratOut.risk_reward.den
                  = stratOut.stop_loss - stratOut.entry_price
       /\ stratOut.risk_reward.num >= 0

\* C30 witness: a LONG signal from a profile whose -2 sigma band is
\* negative: the stop is below zero, the entry above it, the target above
\* the entry.
C30_Witness ==
    /\ stratIn.kind = "entry"
    /\ stratOut # NoStrat
    /\ stratIn.profile.sigma_2_low < 0
    /\ stratOut.direction = "LONG"
    /\ stratOut.stop_loss < 0
    /\ stratOut.entry_price > 0
    /\ stratOut.target_price > stratOut.entry_price

\* C25: candles_held is the elapsed time since the entry timestamp divided
\* by 60 seconds for '1m', 300 for '5m', 900 for '15m', rounded down; for
\* any other timeframe it is 0 and the exit reason is never the timeout.
C25_CandlesFromElapsedTime ==
    (stratIn.kind = "candles" /\ stratOut # NoStrat
     /\ stratOut.price # NoPrice)
    => LET elapsed == now - stratIn.position.timestamp
           timeframe == stratIn.position.timeframe
       IN /\ timeframe = "1m" => stratOut.candles_held = elapsed \div 60
          /\ timeframe = "5m" => stratOut.candles_held = elapsed \div 300
          /\ timeframe = "15m" => stratOut.candles_held = elapsed \div 900
          /\ timeframe \notin {"1m", "5m", "15m"}
             => /\ stratOut.candles_held = 0
                /\ stratOut.reason # "timeout"

\* C25 witness: a '1h' position held for a day, priced between its stop and
\* its target: 0 candles held and no exit reason.
C25_Witness ==
    /\ stratIn.kind = "candles"
    /\ stratOut # NoStrat
    /\ stratIn.position.timeframe = "1h"
    /\ now - stratIn.position.timestamp = 86400
    /\ stratOut.price = 100
    /\ stratOut.candles_held = 0
    /\ stratOut.reason = "None"

\* C22: the candles_held stored on an open trade never decreases from one
\* step to the next (the clock of the model only advances).
C22_CandlesHeldMonotone ==
    [][ /\ now' >= now
        /\ \A i \in 1..Len(trades) :
              trades[i].status = "open"
              => trades'[i].candles_held >= trades[i].candles_held
      ]_vars

\* C22 witness: 900 seconds after the entry a monitoring iteration priced
\* the position from the latest candle and stored 15 candles on the open
\* '1m' trade.
C22_Witness ==
    /\ lastMonitor.kind = "step"
    /\ lastMonitor.updated
    /\ lastMonitor.lookup.live = NoPrice
    /\ trades[lastMonitor.trade_id].timeframe = "1m"
    /\ now - trades[lastMonitor.trade_id].timestamp = 900
    /\ trades[lastMonitor.trade_id].candles_held = 15
    /\ trades[lastMonitor.trade_id].status = "open"

\* C26: a monitoring iteration that gets no live price but a latest candle
\* takes the candle close as the current price, logs the position update,
\* evaluates the exit conditions on that price, and closes the trade at
\* that price when the exit is approved and the close succeeds.
C26_CandleCloseFallback ==
    [][ (/\ MonitorIteration
         /\ ~lastMonitor'.lookup.raises
         /\ lastMonitor'.lookup.live = NoPrice
         /\ lastMonitor'.lookup.candle # NoPrice)
        => LET position == Head(open_positions)
               m == lastMonitor'
           IN /\ m.price = m.lookup.candle
              /\ m.updated
              /\ m.checked
              /\ trades'[position.id].candles_held = m.candles_held
              /\ m.reason = check_exit_conditions(position, m.lookup.candle,
                                                  m.candles_held)
              /\ m.reason # "None" => m.asked
              /\ (m.should_exit /\ m.success)
                 => /\ trades'[position.id].status = "closed"
                    /\ trades'[position.id].exit_price = m.lookup.candle
      ]_vars

\* C26 witness: without a live price, the candle close 104 reached the
\* take-profit, the exit was approved and the trade is closed at 104.
C26_Witness ==
    /\ lastMonitor.kind = "step"
    /\ ~lastMonitor.lookup.raises
    /\ lastMonitor.lookup.live = NoPrice
    /\ lastMonitor.lookup.candle = 104
    /\ lastMonitor.reason = "take_profit"
    /\ lastMonitor.success
    /\ trades[lastMonitor.trade_id].status = "closed"
    /\ trades[lastMonitor.trade_id].exit_price = 104

\* A step that is one iteration of the symbol loop of StrategyAgent.run.
ScanIteration ==
    /\ pc = "scan"
    /\ scanIdx' # scanIdx

\* C23: a symbol that has an open trade when it is scanned is skipped:
\* generate_signals is called on none of its timeframes, nothing is
\* appended for it, and the list holds no signal of that symbol.
C23_OpenSymbolSkipped ==
    [][ (ScanIteration /\ HasOpenPosition(HYPERLIQUID_SYMBOLS[scanIdx]))
        => /\ lastScan'.symbol = HYPERLIQUID_SYMBOLS[scanIdx]
           /\ lastScan'.skipped
           /\ lastScan'.evaluated = << >>
           /\ signals' = signals
           /\ \A k \in 1..Len(signals') :
                 signals'[k].symbol # HYPERLIQUID_SYMBOLS[scanIdx]
      ]_vars

\* C23 witness: ETH was skipped for its open trade in a scan that found a
\* signal for BTC.
C23_Witness ==
    /\ lastScan.kind = "step"
    /\ lastScan.symbol = "ETH"
    /\ lastScan.skipped
    /\ HasOpenPosition("ETH")
    /\ signals # << >>
    /\ signals[1].symbol = "BTC"

\* C24: the signal list of a scan holds at most one signal per symbol.
C24_OneSignalPerSymbol ==
    \A a, b \in 1..Len(signals) :
       signals[a].symbol = signals[b].symbol => a = b

\* C27: every trade record created by execute_trade has a leverage within
\* [2, 20], also when the entry advisory adjusted the leverage.
C27_TradeLeverageInRange ==
    \A i \in 1..Len(trades) : trades[i].leverage \in 2..20

====
